---- MODULE Spec2Model ----
(***************************************************************************)
(* Results-page decision engine of the PDF result page finder:             *)
(* TextAnalyzer.analyze_document (term matching and the OCR gate) and      *)
(* PageClassifier (statistics, outliers, classification, reconciliation).  *)
(*                                                                         *)
(* Numbers.  The code computes z-scores in floating point.  Here a z-score *)
(* is kept exactly: for n counts with sum S and sum of squares Q, put      *)
(* D = n*Q - S*S; then mean = S/n, the sample variance is D/(n*(n-1)) and  *)
(* the z-score of count c is (n*c - S) / sqrt(n*D/(n-1)).  A z-score is    *)
(* the record [num |-> n*c - S, rad |-> n*D, k |-> n-1], standing for      *)
(* num * sqrt(k/rad), and [num |-> 0, rad |-> 1, k |-> 1] stands for 0.    *)
(* All z-scores of one document share rad and k, so they compare by num.   *)
(*                                                                         *)
(* Text.  A page text is [terms, lines]: the lexicon entries that occur in *)
(* it, and for each line the set of marker words on it.                    *)
(*                                                                         *)
(* Specifications.  Spec runs analyze_document on bounded documents.       *)
(* SpecProcess runs DocumentProcessor.process_document: the stockData      *)
(* string is resolved by ResultTypeConfig.from_stock_data, the extractor's *)
(* pages are analysed and, when OCR is needed, the provider's pages too.   *)
(* A stockData string is absent, not JSON, or a decoded JSON value.        *)
(* After the last analysis the result page is rendered, the financial      *)
(* analysis is started, the image is uploaded and the report is sent; the  *)
(* outcome of each outside call (OCR provider, renderer, AI assistant, S3) *)
(* is a choice.  The collaborators are set up once, by Construct, and      *)
(* config.TELEGRAM_USE_S3_URL starts at its default, true.                 *)
(***************************************************************************)
EXTENDS Integers, Sequences, FiniteSets, TLC

\* ---------------------------------------------------------------- bounds
MaxPages == 6
MaxRich == 2

\* ------------------------------------------------------------- constants
MIN_FINANCIAL_TERMS == 7
ZSCORE_THRESHOLD == 1
GAP_PERCENTAGE_THRESHOLD == 30
NumFinancialTerms == 22

FINANCIAL_TERMS == 1..NumFinancialTerms

Words == {"Standalone", "Consolidated", "separate", "SEGMENT"}

None == <<>>
Some(x) == <<x>>

\* ------------------------------------------------------------ the labels
Unknown == "Unknown"
NotRelevant == "Not Relevant with zScore"
ResultsPage == "Results Page"
RelevantFinancialContent == "Relevant Financial Content"
MoreResultsPages == "More Results Pages"
DuplicateResultsPage == "Duplicate Results Page"

\* the string test  "Consolidated" in label / "Standalone" in label, tabulated
\* over every string the code assigns to classification or content_type
LabelsContainingConsolidated ==
    { "Consolidated", "Consolidated (Segment)",
      "Standalone (Segment, with fake Consolidated term)" }

LabelsContainingStandalone ==
    { "Standalone", "Standalone (Segment)",
      "Standalone (Segment, with fake Consolidated term)",
      "Standalone (probability of fake Conxxlidated term used)" }

\* the three gate failure messages and the success message
MsgNoTerms == "PDF needs to be processed through OCR API to get data"
MsgNoResultsPage == "No Results Page found, needs OCR processing"
MsgSparse == "Results Page doesn't have enough unique terms, needs OCR processing"
MsgSuccess == "PDF processed successfully"

\* ------------------------------------------------------------- utilities
RECURSIVE SumSeq(_)
SumSeq(s) == IF s = <<>> THEN 0 ELSE Head(s) + SumSeq(Tail(s))

RECURSIVE SumSq(_)
SumSq(s) == IF s = <<>> THEN 0 ELSE Head(s) * Head(s) + SumSq(Tail(s))

\* the page indices 1..n in page order
Indices(n) == [i \in 1..n |-> i]

Range(s) == { s[i] : i \in DOMAIN s }

\* ----------------------------------------------------------- TermMatcher
find_unique_terms(text) == { t \in FINANCIAL_TERMS : t \in text.terms }

\* analyze_page with the OCR flag lost
analyze_page_NoOcrFlag(text, page_number, is_ocr) ==
    LET found_terms == find_unique_terms(text)
        unique_terms_count == Cardinality(found_terms)
    IN  [ page_number |-> page_number,
          text |-> text,
          isRelevant |-> unique_terms_count >= MIN_FINANCIAL_TERMS,
          foundTerms |-> found_terms,
          uniqueTermsCount |-> unique_terms_count,
          classification |-> Unknown,
          isOcr |-> FALSE,
          zScore |-> None,
          isOutlier |-> None ]

\* (text.strip() removes outer whitespace only; a text here holds no whitespace)
analyze_page(text, page_number, is_ocr) ==
    LET found_terms == find_unique_terms(text)
        unique_terms_count == Cardinality(found_terms)
    IN  [ page_number |-> page_number,
          text |-> text,
          isRelevant |-> unique_terms_count >= MIN_FINANCIAL_TERMS,
          foundTerms |-> found_terms,
          uniqueTermsCount |-> unique_terms_count,
          classification |-> Unknown,
          isOcr |-> is_ocr,
          zScore |-> None,
          isOutlier |-> None ]

\* -------------------------------------------------------- PageStatistics
ZeroZ == [num |-> 0, rad |-> 1, k |-> 1]

\* the comparison with the threshold taken as 0
ZGreater_Sign(z, t) == z.num > 0

\* z > t for an integer t >= 0
ZGreater(z, t) == z.num > 0 /\ z.num * z.num * z.k > t * t * z.rad

\* calculate_statistics falling back to the raw count when std_dev is 0
calculate_statistics_RawCount(unique_terms_counts) ==
    LET n == Len(unique_terms_counts)
        S == SumSeq(unique_terms_counts)
        D == n * SumSq(unique_terms_counts) - S * S
    IN  IF n = 0
        THEN [ mean |-> <<0, 1>>, variance |-> <<0, 1>>, z_scores |-> <<>> ]
        ELSE [ mean |-> <<S, n>>,
               variance |-> IF n > 1 THEN <<D, n * (n - 1)>> ELSE <<0, 1>>,
               z_scores |-> [ i \in 1..n |->
                   IF n > 1 /\ D > 0
                   THEN [num |-> n * unique_terms_counts[i] - S, rad |-> n * D, k |-> n - 1]
                   ELSE [num |-> unique_terms_counts[i], rad |-> 1, k |-> 1] ] ]

\* calculate_statistics with the population (n) standard deviation
calculate_statistics_Population(unique_terms_counts) ==
    LET n == Len(unique_terms_counts)
        S == SumSeq(unique_terms_counts)
        D == n * SumSq(unique_terms_counts) - S * S
    IN  IF n = 0
        THEN [ mean |-> <<0, 1>>, variance |-> <<0, 1>>, z_scores |-> <<>> ]
        ELSE [ mean |-> <<S, n>>,
               variance |-> IF n > 1 THEN <<D, n * n>> ELSE <<0, 1>>,
               z_scores |-> [ i \in 1..n |->
                   IF n > 1 /\ D > 0
                   THEN [num |-> n * unique_terms_counts[i] - S, rad |-> n * D, k |-> n]
                   ELSE ZeroZ ] ]

\* calculate_statistics dividing by std_dev without the std_dev > 0 test: a
\* radicand of 0 stands for the division by zero
calculate_statistics_Unguarded(unique_terms_counts) ==
    LET n == Len(unique_terms_counts)
        S == SumSeq(unique_terms_counts)
        D == n * SumSq(unique_terms_counts) - S * S
    IN  IF n = 0
        THEN [ mean |-> <<0, 1>>, variance |-> <<0, 1>>, z_scores |-> <<>> ]
        ELSE [ mean |-> <<S, n>>,
               variance |-> IF n > 1 THEN <<D, n * (n - 1)>> ELSE <<0, 1>>,
               z_scores |-> [ i \in 1..n |->
                   [num |-> n * unique_terms_counts[i] - S, rad |-> n * D, k |-> n - 1] ] ]

calculate_statistics(unique_terms_counts) ==
    LET n == Len(unique_terms_counts)
        S == SumSeq(unique_terms_counts)
        D == n * SumSq(unique_terms_counts) - S * S
    IN  IF n = 0
        THEN [ mean |-> <<0, 1>>, variance |-> <<0, 1>>, z_scores |-> <<>> ]
        ELSE [ mean |-> <<S, n>>,
               variance |-> IF n > 1 THEN <<D, n * (n - 1)>> ELSE <<0, 1>>,
               z_scores |-> [ i \in 1..n |->
                   IF n > 1 /\ D > 0
                   THEN [num |-> n * unique_terms_counts[i] - S, rad |-> n * D, k |-> n - 1]
                   ELSE ZeroZ ] ]

\* -------------------------------------------------------- PageClassifier
\* re.search of the four CLASSIFICATION_TERMS; the Consolidated pattern is
\* searched line by line and rejects a line that also holds a 'separat*' word
_analyze_text_content(text) ==
    LET has_standalone == \E l \in DOMAIN text.lines : "Standalone" \in text.lines[l]
        has_consolidated == \E l \in DOMAIN text.lines :
            "Consolidated" \in text.lines[l] /\ "separate" \notin text.lines[l]
        has_any_consolidated == \E l \in DOMAIN text.lines : "Consolidated" \in text.lines[l]
        has_segment == \E l \in DOMAIN text.lines : "SEGMENT" \in text.lines[l]
    IN  IF has_segment
        THEN IF has_standalone
             THEN IF has_consolidated THEN "Rare Case (Segment)"
                  ELSE IF has_any_consolidated
                       THEN "Standalone (Segment, with fake Consolidated term)"
                       ELSE "Standalone (Segment)"
             ELSE IF has_consolidated THEN "Consolidated (Segment)" ELSE "Segment"
        ELSE IF has_standalone
             THEN IF has_consolidated THEN "Rare Case"
                  ELSE IF has_any_consolidated
                       THEN "Standalone (probability of fake Conxxlidated term used)"
                       ELSE "Standalone"
             ELSE IF has_consolidated THEN "Consolidated" ELSE "Classification Failed"

\* list.index(page): the first position holding a record equal to page
IndexOf(ap, page) == CHOOSE j \in 1..Len(ap) :
    ap[j] = page /\ \A h \in 1..(j - 1) : ap[h] # page

RECURSIVE MarkFrom(_, _, _)
\* classify_pages step 1, the loop from page i on: z-score, outlier flag, label
MarkFrom(ap, stats, i) ==
    IF i > Len(ap) THEN ap
    ELSE LET z == stats.z_scores[IndexOf(ap, ap[i])]
         IN  MarkFrom([ap EXCEPT ![i] = [@ EXCEPT !.zScore = Some(z),
                                              !.isOutlier = Some(ZGreater(z, ZSCORE_THRESHOLD)),
                                              !.classification = NotRelevant]],
                      stats, i + 1)

ZNum(ap, i) == ap[i].zScore[1].num

RECURSIVE SortByZScoreDesc(_, _)
\* list.sort(key=zScore, reverse=True): descending and stable
SortByZScoreDesc(ap, s) ==
    IF s = <<>> THEN <<>>
    ELSE LET rest == SortByZScoreDesc(ap, SubSeq(s, 1, Len(s) - 1))
             x == s[Len(s)]
         IN  SelectSeq(rest, LAMBDA j : ZNum(ap, j) >= ZNum(ap, x)) \o <<x>>
             \o SelectSeq(rest, LAMBDA j : ZNum(ap, j) < ZNum(ap, x))

\* step 2 taking the pages with the minimum term count for the outliers
HighZScorePages_Relevant(ap) ==
    SortByZScoreDesc(ap, SelectSeq(Indices(Len(ap)),
        LAMBDA i : ap[i].uniqueTermsCount >= MIN_FINANCIAL_TERMS))

\* step 2 and 3: the outlier pages, sorted by z-score
HighZScorePages(ap) ==
    SortByZScoreDesc(ap, SelectSeq(Indices(Len(ap)), LAMBDA i : ap[i].isOutlier[1]))

\* the gap taken relative to the second-highest z-score
GapExceeds_OfSecond(ap, hz) ==
    (ZNum(ap, hz[1]) - ZNum(ap, hz[2])) * 100 > GAP_PERCENTAGE_THRESHOLD * ZNum(ap, hz[2])

\* ((highest - second) / highest) * 100 > GAP_PERCENTAGE_THRESHOLD
GapExceeds(ap, hz) ==
    (ZNum(ap, hz[1]) - ZNum(ap, hz[2])) * 100 > GAP_PERCENTAGE_THRESHOLD * ZNum(ap, hz[1])

Relabel(ap, label) ==
    [ i \in 1..Len(ap) |-> [ap[i] EXCEPT !.classification = label[i]] ]

\* the single-page branch with the term-count test inverted
ClassifySinglePage_Swapped(ap, hz) ==
    LET enough(i) == ap[i].uniqueTermsCount >= MIN_FINANCIAL_TERMS
        large_gap == GapExceeds(ap, hz)
    IN  Relabel(ap, [ i \in 1..Len(ap) |->
            IF i \notin Range(hz) THEN ap[i].classification
            ELSE IF Len(hz) = 1 \/ large_gap
                 THEN IF i = hz[1] /\ ~ enough(i) THEN ResultsPage
                      ELSE RelevantFinancialContent
                 ELSE IF enough(i) THEN MoreResultsPages ELSE RelevantFinancialContent ])

\* result_type == "single_page"
ClassifySinglePage(ap, hz) ==
    LET enough(i) == ap[i].uniqueTermsCount >= MIN_FINANCIAL_TERMS
        large_gap == GapExceeds(ap, hz)
    IN  Relabel(ap, [ i \in 1..Len(ap) |->
            IF i \notin Range(hz) THEN ap[i].classification
            ELSE IF Len(hz) = 1 \/ large_gap
                 THEN IF i = hz[1] /\ enough(i) THEN ResultsPage
                      ELSE RelevantFinancialContent
                 ELSE IF enough(i) THEN MoreResultsPages ELSE RelevantFinancialContent ])

\* the multi-page branch keeping the keyword label instead of promoting
ClassifyMultiPage_NoPromotion(ap, hz, result_type_config) ==
    Relabel(ap, [ i \in 1..Len(ap) |->
        IF i \notin Range(hz) THEN ap[i].classification
        ELSE IF ap[i].uniqueTermsCount >= MIN_FINANCIAL_TERMS
             THEN _analyze_text_content(ap[i].text)
             ELSE RelevantFinancialContent ])

\* result_type == "multi_page"
ClassifyMultiPage(ap, hz, result_type_config) ==
    LET wanted == IF result_type_config.multi_page_type = "consolidated"
                  THEN LabelsContainingConsolidated ELSE LabelsContainingStandalone
    IN  Relabel(ap, [ i \in 1..Len(ap) |->
            IF i \notin Range(hz) THEN ap[i].classification
            ELSE IF ap[i].uniqueTermsCount >= MIN_FINANCIAL_TERMS
                 THEN LET content_type == _analyze_text_content(ap[i].text)
                      IN  IF content_type \in wanted THEN ResultsPage ELSE content_type
                 ELSE RelevantFinancialContent ])

\* the layout branch, lines 124-176
ClassifyByLayout(ap, hz, result_type_config) ==
    IF result_type_config.result_type = "single_page" THEN ClassifySinglePage(ap, hz)
    ELSE IF result_type_config.result_type = "multi_page"
         THEN ClassifyMultiPage(ap, hz, result_type_config)
         ELSE ap

\* the single-page layout returns after labelling its one outlier (line 132)
ReturnsAfterLayout(hz, result_type_config) ==
    result_type_config.result_type = "single_page" /\ Len(hz) = 1

\* the special case promoting the partner whatever label the other page has
SpecialCase_AnyLabel(ap, hz) ==
    IF Len(hz) = 2 /\ \A j \in 1..2 : ap[hz[j]].classification # ResultsPage
    THEN IF ap[hz[2]].uniqueTermsCount >= 10
         THEN [ap EXCEPT ![hz[2]].classification = ResultsPage]
         ELSE IF ap[hz[1]].uniqueTermsCount >= 10
              THEN [ap EXCEPT ![hz[1]].classification = ResultsPage]
              ELSE ap
    ELSE ap

\* special case: exactly two outliers, none of them a Results Page
SpecialCase(ap, hz) ==
    IF Len(hz) = 2 /\ \A j \in 1..2 : ap[hz[j]].classification # ResultsPage
    THEN LET page1 == hz[1]
             page2 == hz[2]
             scoped(i) == ap[i].classification \in LabelsContainingConsolidated
                          \/ ap[i].classification \in LabelsContainingStandalone
         IN  IF scoped(page1) /\ ap[page2].uniqueTermsCount >= 10
             THEN [ap EXCEPT ![page2].classification = ResultsPage]
             ELSE IF scoped(page2) /\ ap[page1].uniqueTermsCount >= 10
                  THEN [ap EXCEPT ![page1].classification = ResultsPage]
                  ELSE ap
    ELSE ap

\* classify_pages without duplicate suppression
HandleDuplicates_Skip(ap) == ap

\* duplicate suppression keeping the top page without the 14-term and gap tests
HandleDuplicates_KeepTop(ap) ==
    LET result_pages == SortByZScoreDesc(ap,
            SelectSeq(Indices(Len(ap)), LAMBDA i : ap[i].classification = ResultsPage))
    IN  IF Len(result_pages) > 1
        THEN Relabel(ap, [ i \in 1..Len(ap) |->
                 IF i \in Range(result_pages) /\ i # result_pages[1]
                 THEN DuplicateResultsPage ELSE ap[i].classification ])
        ELSE ap

\* several Results Pages: keep the top one or none
HandleDuplicates(ap) ==
    LET result_pages == SortByZScoreDesc(ap,
            SelectSeq(Indices(Len(ap)), LAMBDA i : ap[i].classification = ResultsPage))
    IN  IF Len(result_pages) > 1
        THEN LET top_has_min_terms == ap[result_pages[1]].uniqueTermsCount >= 14
                 z0 == ZNum(ap, result_pages[1])
                 z1 == ZNum(ap, result_pages[2])
                 abs1 == IF z1 < 0 THEN -z1 ELSE z1
                 sufficient_gap == z1 # 0 /\ (z0 - z1) * 100 >= 30 * abs1
                 keep == IF top_has_min_terms /\ sufficient_gap
                         THEN {result_pages[1]} ELSE {}
             IN  Relabel(ap, [ i \in 1..Len(ap) |->
                     IF i \in Range(result_pages) /\ i \notin keep
                     THEN DuplicateResultsPage ELSE ap[i].classification ])
        ELSE ap

\* classify_pages(analyzed_pages, stats, result_type_config), start to return
classify_pages(ap, st, cfg) ==
    LET marked == MarkFrom(ap, st, 1)
        hz == HighZScorePages(marked)
    IN  IF hz = <<>> THEN marked
        ELSE LET labelled == ClassifyByLayout(marked, hz, cfg)
             IN  IF ReturnsAfterLayout(hz, cfg) THEN labelled
                 ELSE HandleDuplicates(SpecialCase(labelled, hz))

\* -------------------------------------------------------- ExtractionGate
\* step 2 letting a document without pages through to the statistics
NoPageHasMinTerms_NonEmpty(ap) ==
    /\ ap # <<>>
    /\ ~ \E i \in 1..Len(ap) : ap[i].uniqueTermsCount >= MIN_FINANCIAL_TERMS

\* step 2 never taking the early return
NoPageHasMinTerms_Never(ap) == FALSE

\* analyze_document step 2: not any(uniqueTermsCount >= MIN_FINANCIAL_TERMS)
NoPageHasMinTerms(ap) ==
    ~ \E i \in 1..Len(ap) : ap[i].uniqueTermsCount >= MIN_FINANCIAL_TERMS

\* the early return of step 2 reporting that no OCR is needed
NoTermsResult_NoOcr(ap) == [needs_ocr |-> FALSE, message |-> MsgNoTerms, pages |-> ap]

\* the early return of step 2
NoTermsResult(ap) == [needs_ocr |-> TRUE, message |-> MsgNoTerms, pages |-> ap]

\* steps 5 and 8 without the 10-term check of the Results Page
ResultsPageCheck_NoSparse(ap) ==
    LET results_pages == { i \in 1..Len(ap) : ap[i].classification = ResultsPage }
    IN  IF results_pages = {}
        THEN [needs_ocr |-> TRUE, message |-> MsgNoResultsPage, pages |-> ap]
        ELSE [needs_ocr |-> FALSE, message |-> MsgSuccess, pages |-> ap]

\* analyze_document steps 5 and 8, on the pages classify_pages returned
ResultsPageCheck(ap) ==
    LET results_pages == { i \in 1..Len(ap) : ap[i].classification = ResultsPage }
    IN  IF results_pages = {}
        THEN [needs_ocr |-> TRUE, message |-> MsgNoResultsPage, pages |-> ap]
        ELSE IF ~ \E i \in results_pages : ap[i].uniqueTermsCount >= 10
             THEN [needs_ocr |-> TRUE, message |-> MsgSparse, pages |-> ap]
             ELSE [needs_ocr |-> FALSE, message |-> MsgSuccess, pages |-> ap]

\* ---------------------------------------------------- ResultLayoutConfig
\* the JSON values a stock-data string can decode to
JNull == [json |-> "null"]

\* a number other than 0
JNumber == [json |-> "number"]

\* a non-empty array
JArray == [json |-> "array"]

JString(s) == [json |-> "string", str |-> s]

JObject(members) == [json |-> "object", members |-> members]

NoMembers == [k \in {} |-> JNull]

\* dict.get(key, default)
Get(obj, key, default) ==
    IF key \in DOMAIN obj.members THEN obj.members[key] ELSE default

\* bool(v) of a decoded JSON value
Truthy(v) ==
    CASE v.json = "null" -> FALSE
      [] v.json = "string" -> v.str # ""
      [] v.json = "object" -> DOMAIN v.members # {}
      [] OTHER -> TRUE

\* str.lower() on the strings the hints hold
Lower(s) ==
    CASE s = "Consolidated" -> "consolidated"
      [] s = "Standalone" -> "standalone"
      [] s = "STANDALONE" -> "standalone"
      [] s = "Quarterly" -> "quarterly"
      [] OTHER -> s

\* the stockData form field: not sent or empty, not JSON, or a JSON text
AbsentStockData == [form |-> "absent"]

MalformedStockData == [form |-> "malformed"]

JsonStockData(v) == [form |-> "json", value |-> v]

Raised(error) == [raised |-> TRUE, error |-> error]

Returned(value) == [raised |-> FALSE, value |-> value]

\* json.loads accepting any text as the empty object
json_loads_Lenient(stock_data) ==
    IF stock_data.form = "json" THEN Returned(stock_data.value)
    ELSE Returned(JObject(NoMembers))

\* json.loads(stock_data)
json_loads(stock_data) ==
    IF stock_data.form = "json" THEN Returned(stock_data.value)
    ELSE Raised("JSONDecodeError")

DefaultConfig == [result_type |-> "single_page", multi_page_type |-> "None"]

\* from_stock_data taking a hint without a type field as 'Multi'
from_stock_data_DefaultMulti(stock_data) ==
    IF stock_data.form = "absent" THEN Returned(DefaultConfig)
    ELSE LET loaded == json_loads(stock_data)
         IN  IF loaded.raised THEN Raised("Invalid stock data format")
             ELSE IF loaded.value.json # "object" THEN Raised("Failed to parse stock data")
             ELSE LET result_config == Get(loaded.value, "resultPageConfig", JObject(NoMembers))
                  IN  IF result_config.json # "object"
                      THEN Raised("Failed to parse stock data")
                      ELSE LET type == Get(result_config, "type", JString("Multi"))
                               result_type == IF type = JString("Multi")
                                              THEN "multi_page" ELSE "single_page"
                               page_type == Get(result_config, "pageType", JString("Consolidated"))
                           IN  IF type.json \in {"array", "object"}
                               THEN Raised("Failed to parse stock data")
                               ELSE IF result_type # "multi_page"
                               THEN Returned([result_type |-> result_type,
                                              multi_page_type |-> "None"])
                               ELSE IF ~ Truthy(page_type)
                               THEN Returned([result_type |-> result_type,
                                              multi_page_type |-> "consolidated"])
                               ELSE IF page_type.json = "string"
                               THEN Returned([result_type |-> result_type,
                                              multi_page_type |-> Lower(page_type.str)])
                               ELSE Raised("Failed to parse stock data")

\* ResultTypeConfig.from_stock_data(stock_data)
from_stock_data(stock_data) ==
    IF stock_data.form = "absent" THEN Returned(DefaultConfig)
    ELSE LET loaded == json_loads(stock_data)
         IN  IF loaded.raised THEN Raised("Invalid stock data format")
             ELSE IF loaded.value.json # "object" THEN Raised("Failed to parse stock data")
             ELSE LET result_config == Get(loaded.value, "resultPageConfig", JObject(NoMembers))
                  IN  IF result_config.json # "object"
                      THEN Raised("Failed to parse stock data")
                      ELSE LET type == Get(result_config, "type", JString("Single"))
                               result_type == IF type = JString("Multi")
                                              THEN "multi_page" ELSE "single_page"
                               page_type == Get(result_config, "pageType", JString("Consolidated"))
                           IN  IF type.json \in {"array", "object"}
                               THEN Raised("Failed to parse stock data")
                               ELSE IF result_type # "multi_page"
                               THEN Returned([result_type |-> result_type,
                                              multi_page_type |-> "None"])
                               ELSE IF ~ Truthy(page_type)
                               THEN Returned([result_type |-> result_type,
                                              multi_page_type |-> "consolidated"])
                               ELSE IF page_type.json = "string"
                               THEN Returned([result_type |-> result_type,
                                              multi_page_type |-> Lower(page_type.str)])
                               ELSE Raised("Failed to parse stock data")

\* process_document, from the stockData field to the layout config: the
\* string is decoded for nodeElapsedMs first, then handed to from_stock_data
ResolveLayout(stock_data) ==
    IF stock_data.form = "absent" THEN from_stock_data(stock_data)
    ELSE LET loaded == json_loads(stock_data)
         IN  IF loaded.raised THEN loaded
             ELSE IF loaded.value.json # "object" THEN Raised("AttributeError")
             ELSE from_stock_data(stock_data)

\* ------------------------------------------------------------ the inputs
\* a page without financial terms or marker words
FillerText == [terms |-> {}, lines |-> <<>>]

RichCounts == {9, 11, 14}

KeywordLines ==
    { <<>>,
      << {"Consolidated"} >>,
      << {"Standalone"} >> }

RichTexts == { [terms |-> 1..c, lines |-> l] : c \in RichCounts, l \in KeywordLines }

PlainText(c) == [terms |-> 1..c, lines |-> <<>>]

\* texts whose marker words meet on one page or on one line
SpecialTexts ==
    { [terms |-> 1..14, lines |-> << {"Standalone"}, {"Consolidated"} >>],
      [terms |-> 1..11, lines |-> << {"Consolidated", "separate"} >>],
      [terms |-> 1..11, lines |-> << {"Standalone"}, {"Consolidated", "separate"} >>],
      [terms |-> 1..14, lines |-> << {"SEGMENT", "Standalone"}, {"Consolidated", "separate"} >>],
      [terms |-> 1..14, lines |-> << {"SEGMENT"}, {"Consolidated"} >>] }

\* four filler pages and then the pages a and b
PairText(a, b) == << FillerText, FillerText, FillerText, FillerText, a, b >>

\* the term counts of the documents of one and two pages
ShortCounts == {0, 7, 14, NumFinancialTerms}

\* documents given page by page
ExampleTexts ==
    { [i \in 1..5 |-> PlainText(<<2, 3, 15, 4, 3>>[i])],
      [i \in 1..5 |-> PlainText(<<2, 3, 6, 4, 3>>[i])],
      [i \in 1..6 |-> PlainText(<<0, 0, 0, 0, 6, 7>>[i])] }
    \cup { PairText(a, b) : a, b \in SpecialTexts \cup RichTexts }
    \cup { << PlainText(a) >> : a \in ShortCounts }
    \cup { << PlainText(a), PlainText(b) >> : a, b \in ShortCounts }

\* a document of n pages: the pages of P hold the texts f, the others are filler
BoundedText(n, P, f) == [i \in 1..n |-> IF i \in P THEN f[i] ELSE FillerText]

\* the sets of at most MaxRich pages of a document of n pages
RichPages(n) == { X \in SUBSET (1..n) : Cardinality(X) <= MaxRich }

\* the page list a text extractor hands over: pages numbered from 1, the
\* isOcr flag set by the OCR provider and absent (False) otherwise
InputPages(texts, is_ocr) ==
    [i \in 1..Len(texts) |-> [page_number |-> i, text |-> texts[i], isOcr |-> is_ocr]]

ResultTypeConfigs ==
    { [result_type |-> "single_page", multi_page_type |-> "None"],
      [result_type |-> "multi_page", multi_page_type |-> "consolidated"],
      [result_type |-> "multi_page", multi_page_type |-> "standalone"] }

\* the values of the type and pageType members; "absent" stands for no member
HintTypes == { JString("Single"), JString("Multi"), JString("multi") }

HintPageTypes ==
    { JNull, JNumber, JString(""), JString("Consolidated"), JString("Standalone"),
      JString("Quarterly") }

\* the resultPageConfig objects: each member present or not
ResultPageConfigs ==
    { JObject([k \in keys |-> IF k = "type" THEN t ELSE p]) :
          keys \in SUBSET {"type", "pageType"}, t \in HintTypes, p \in HintPageTypes }

\* the stockData strings a request can carry
StockData ==
    { AbsentStockData, MalformedStockData, JsonStockData(JArray),
      JsonStockData(JObject(NoMembers)),
      JsonStockData(JObject([k \in {"resultPageConfig"} |-> JNull])) }
    \cup { JsonStockData(JObject([k \in {"resultPageConfig"} |-> rc])) :
               rc \in ResultPageConfigs }

\* the page texts the text extractor or the OCR provider returns for a request
ProcessTexts ==
    { << >>,
      << FillerText >>,
      [i \in 1..5 |-> PlainText(<<2, 3, 15, 4, 3>>[i])],
      [i \in 1..5 |-> PlainText(<<2, 3, 6, 4, 3>>[i])],
      [i \in 1..5 |-> PlainText(<<2, 3, 8, 4, 3>>[i])],
      PairText([terms |-> 1..11, lines |-> << {"Standalone"} >>],
               [terms |-> 1..14, lines |-> << {"Consolidated"} >>]),
      PairText([terms |-> 1..14, lines |-> << {"SEGMENT", "Standalone"},
                                              {"Consolidated", "separate"} >>],
               [terms |-> 1..14, lines |-> << >>]) }

\* -------------------------------------------------------------- the state
VARIABLES pc, pages, result_type_config, analyzed_pages, unique_terms_counts,
          stats, high_zscore_pages, result,
          request,   \* process_document: the stockData string, the pass, the errors
          earlier,   \* the last engine run that returned: its input and output
          config,    \* the settings of module config that the process can change
          services,  \* the collaborators DocumentProcessor.__init__ has set up
          response   \* what the last request returned and which calls it made

vars == << pc, pages, result_type_config, analyzed_pages, unique_terms_counts,
           stats, high_zscore_pages, result, request, earlier, config, services, response >>

NoConfig == [result_type |-> "None", multi_page_type |-> "None"]

NoRequest ==
    [stock_data |-> AbsentStockData, pass |-> "none", error |-> None,
     needs_ocr |-> None, runs |-> 0, ocr_calls |-> 0, ocr_error |-> None]

\* before DocumentProcessor() is constructed there are no collaborators
NoServices ==
    [constructed |-> FALSE, s3_service |-> FALSE, telegram_service |-> FALSE,
     ai_assistant |-> FALSE]

Init ==
    /\ pc = "idle"
    /\ pages = <<>>
    /\ result_type_config = NoConfig
    /\ analyzed_pages = <<>>
    /\ unique_terms_counts = <<>>
    /\ stats = None
    /\ high_zscore_pages = <<>>
    /\ result = None
    /\ request = NoRequest
    /\ earlier = None
    /\ config = [TELEGRAM_USE_S3_URL |-> TRUE]
    /\ services = NoServices
    /\ response = None

\* the first pass appending to a page list that outlives the call
FirstPass_SharedList(texts, is_ocr, cfg) ==
    /\ pages' = InputPages(texts, is_ocr)
    /\ result_type_config' = cfg
    /\ analyzed_pages' = analyzed_pages \o [ i \in 1..Len(pages') |->
           analyze_page(pages'[i].text, pages'[i].page_number, pages'[i].isOcr) ]
    /\ unique_terms_counts' =
           [ i \in 1..Len(analyzed_pages') |-> analyzed_pages'[i].uniqueTermsCount ]
    /\ pc' = "check_min_terms"
    /\ stats' = None
    /\ high_zscore_pages' = <<>>
    /\ result' = None

\* analyze_document(pages, result_type_config), step 1: the first pass
FirstPass(texts, is_ocr, cfg) ==
    /\ pages' = InputPages(texts, is_ocr)
    /\ result_type_config' = cfg
    /\ analyzed_pages' = [ i \in 1..Len(pages') |->
           analyze_page(pages'[i].text, pages'[i].page_number, pages'[i].isOcr) ]
    /\ unique_terms_counts' = [ i \in 1..Len(pages') |-> analyzed_pages'[i].uniqueTermsCount ]
    /\ pc' = "check_min_terms"
    /\ stats' = None
    /\ high_zscore_pages' = <<>>
    /\ result' = None

\* the pages of the primary extraction (no isOcr key: False)
AnalyzeDocument ==
    /\ pc = "idle"
    /\ \E n \in 0..MaxPages : \E P \in RichPages(n) : \E f \in [P -> RichTexts] :
        \E texts \in {BoundedText(n, P, f)}, cfg \in ResultTypeConfigs :
            FirstPass(texts, FALSE, cfg) /\ UNCHANGED << request, earlier, config, services, response >>

\* the example documents, from the primary extraction or from the OCR provider
AnalyzeExample ==
    /\ pc = "idle"
    /\ \E texts \in ExampleTexts, is_ocr \in BOOLEAN, cfg \in ResultTypeConfigs :
        FirstPass(texts, is_ocr, cfg) /\ UNCHANGED << request, earlier, config, services, response >>

\* step 2: no page has MIN_FINANCIAL_TERMS terms: return, OCR needed
CheckMinTerms ==
    /\ pc = "check_min_terms"
    /\ IF NoPageHasMinTerms(analyzed_pages)
       THEN /\ result' = Some(NoTermsResult(analyzed_pages))
            /\ pc' = "done"
       ELSE /\ pc' = "statistics"
            /\ UNCHANGED result
    /\ UNCHANGED << pages, result_type_config, analyzed_pages, unique_terms_counts,
                    stats, high_zscore_pages, request, earlier, config, services, response >>

\* step 4, first half: the statistics
CalculateStatistics ==
    /\ pc = "statistics"
    /\ stats' = Some(calculate_statistics(unique_terms_counts))
    /\ pc' = "classify"
    /\ UNCHANGED << pages, result_type_config, analyzed_pages, unique_terms_counts,
                    high_zscore_pages, result, request, earlier, config, services, response >>

\* classify_pages up to the end of the layout branch (lines 109-176)
ClassifyOutliers ==
    /\ pc = "classify"
    /\ LET marked == MarkFrom(analyzed_pages, stats[1], 1)
           hz == HighZScorePages(marked)
       IN  /\ high_zscore_pages' = hz
           /\ IF hz = <<>>
              THEN /\ analyzed_pages' = marked
                   /\ pc' = "check_results"
              ELSE /\ analyzed_pages' = ClassifyByLayout(marked, hz, result_type_config)
                   /\ pc' = IF ReturnsAfterLayout(hz, result_type_config)
                            THEN "check_results" ELSE "special_case"
    /\ UNCHANGED << pages, result_type_config, unique_terms_counts, stats, result,
                    request, earlier, config, services, response >>

\* classify_pages, the two-outlier special case (lines 178-190)
ReconcileTwoOutliers ==
    /\ pc = "special_case"
    /\ analyzed_pages' = SpecialCase(analyzed_pages, high_zscore_pages)
    /\ pc' = "duplicates"
    /\ UNCHANGED << pages, result_type_config, unique_terms_counts, stats,
                    high_zscore_pages, result, request, earlier, config, services, response >>

\* classify_pages, duplicate Results Pages (lines 192-214)
SuppressDuplicates ==
    /\ pc = "duplicates"
    /\ analyzed_pages' = HandleDuplicates(analyzed_pages)
    /\ pc' = "check_results"
    /\ UNCHANGED << pages, result_type_config, unique_terms_counts, stats,
                    high_zscore_pages, result, request, earlier, config, services, response >>

\* step 5 and step 8: the Results Page checks and the final result
CheckResultsPage ==
    /\ pc = "check_results"
    /\ result' = Some(ResultsPageCheck(analyzed_pages))
    /\ pc' = "done"
    /\ UNCHANGED << pages, result_type_config, analyzed_pages, unique_terms_counts,
                    stats, high_zscore_pages, request, earlier, config, services, response >>

\* the caller has consumed the result; the records of the run are dropped
Return ==
    /\ pc = "done"
    /\ pc' = "idle"
    /\ pages' = <<>>
    /\ result_type_config' = NoConfig
    /\ analyzed_pages' = <<>>
    /\ unique_terms_counts' = <<>>
    /\ stats' = None
    /\ high_zscore_pages' = <<>>
    /\ result' = None
    /\ UNCHANGED << request, earlier, config, services, response >>

Next ==
    \/ AnalyzeDocument
    \/ AnalyzeExample
    \/ CheckMinTerms
    \/ CalculateStatistics
    \/ ClassifyOutliers
    \/ ReconcileTwoOutliers
    \/ SuppressDuplicates
    \/ CheckResultsPage
    \/ Return

Spec == Init /\ [][Next]_vars

\* ------------------------------------------------- process_document requests
\* the engine run that has just returned
ThisRun == [pages |-> pages, result_type_config |-> result_type_config, result |-> result[1]]

\* the collaborators DocumentProcessor.__init__ and FinancialAnalyzer.__init__
\* can end up with: all of them set up, or one of them None
Deployments ==
    { d \in [constructed : {TRUE}, s3_service : BOOLEAN, telegram_service : BOOLEAN,
             ai_assistant : BOOLEAN] :
          Cardinality({ k \in {"s3_service", "telegram_service", "ai_assistant"} :
                           ~ d[k] }) <= 1 }

\* the values of OCRServiceType
OCRServiceTypes == {"azure_document_intelligence", "textract"}

\* ocr_service_instance.process_document(content, filename): AzureOCR returns
\* its pages or raises HTTPException; TextractOCR.process_document takes the
\* content only, so the call with two arguments raises TypeError
ocr_process_document(ocr_service, answered, texts) ==
    IF ocr_service = "textract" THEN Raised("TypeError")
    ELSE IF ~ answered THEN Raised("HTTPException")
    ELSE Returned(texts)

\* line 91: the flag of the first analysis result, kept for the response
needs_ocr == IF request.pass = "primary" THEN result[1].needs_ocr ELSE request.needs_ocr[1]

\* the page numbers of the outliers, in page order
result_page_number_Outliers(ap) ==
    LET result_pages == SelectSeq(ap, LAMBDA p : p.isOutlier = Some(TRUE))
    IN  [i \in 1..Len(result_pages) |-> result_pages[i].page_number]

\* line 108: the page numbers of the Results Pages, in page order
result_page_number(ap) ==
    LET result_pages == SelectSeq(ap, LAMBDA p : p.classification = ResultsPage)
    IN  [i \in 1..Len(result_pages) |-> result_pages[i].page_number]

\* line 111: some page of the last analysis result came from the OCR provider
ocr_applied(ap) == \E i \in 1..Len(ap) : ap[i].isOcr

\* the dict the AI assistant's extraction ends up as, and the dict
\* _analyze_with_ai returns from its except branch
FinancialData == [status |-> None, message |-> None, formatted |-> TRUE]

AiError == [status |-> Some("error"), message |-> Some("AI analysis failed"),
            formatted |-> FALSE]

\* FinancialAnalyzer._analyze_with_ai: without an assistant, or when the result
\* page OCR or the extraction raises, the except branch returns the error dict
_analyze_with_ai(ai_assistant, extracted) ==
    IF ai_assistant /\ extracted THEN FinancialData ELSE AiError

\* FinancialAnalyzer.process_result_page: whatever _analyze_with_ai returned is
\* wrapped as a success; start_analysis and _process_and_notify pass it on
process_result_page(ai_assistant, extracted) ==
    [status |-> "success", message |-> None,
     analysis_results |-> _analyze_with_ai(ai_assistant, extracted)]

start_analysis(ai_assistant, extracted) == process_result_page(ai_assistant, extracted)

\* lines 196-215: the response of process_document
response_data(analysis_result, found, image, s3_url, financial_analysis_result) ==
    [ status |-> "success",
      message |-> analysis_result.message,
      pages |-> analysis_result.pages,
      s3_url |-> s3_url,
      sent_to_telegram |-> services.telegram_service /\ image,
      needs_ocr |-> needs_ocr,
      financial_analysis |->
          IF found /\ financial_analysis_result.status = "success"
          THEN Some(financial_analysis_result.analysis_results) ELSE None,
      financial_analysis_error |->
          IF found /\ financial_analysis_result.status # "success"
          THEN financial_analysis_result.message ELSE None ]

\* DocumentProcessor(): the collaborators are set up, once
Construct ==
    /\ pc = "idle"
    /\ ~ services.constructed
    /\ services' \in Deployments
    /\ UNCHANGED << pc, pages, result_type_config, analyzed_pages, unique_terms_counts,
                    stats, high_zscore_pages, result, request, earlier, config,
                    response >>

\* process_document up to the primary pass: the layout is resolved, the text
\* extractor's pages are analysed; a hint that cannot be resolved raises
ReceiveRequest ==
    /\ pc = "idle"
    /\ services.constructed
    /\ \E stock_data \in StockData :
          LET resolved == ResolveLayout(stock_data)
          IN  IF resolved.raised
              THEN /\ request' = [NoRequest EXCEPT !.stock_data = stock_data,
                                                   !.error = Some(resolved.error)]
                   /\ pc' = "failed"
                   /\ UNCHANGED << pages, result_type_config, analyzed_pages,
                                   unique_terms_counts, stats, high_zscore_pages,
                                   result >>
              ELSE /\ \E texts \in ProcessTexts : FirstPass(texts, FALSE, resolved.value)
                   /\ request' = [NoRequest EXCEPT !.stock_data = stock_data,
                                                   !.pass = "primary", !.runs = 1]
    /\ response' = None
    /\ UNCHANGED << earlier, config, services >>

\* the primary pass asked for OCR: the provider is called and the pages it
\* returns are analysed with the same layout config; a provider that raises
\* ends the request
Reextract ==
    /\ pc = "done"
    /\ request.pass = "primary"
    /\ result[1].needs_ocr
    /\ \E ocr_service \in OCRServiceTypes, answered \in BOOLEAN, texts \in ProcessTexts :
          LET ocr_pages == ocr_process_document(ocr_service, answered, texts)
          IN  IF ocr_pages.raised
              THEN /\ request' = [request EXCEPT !.ocr_error = Some(ocr_pages.error),
                                                 !.needs_ocr = Some(needs_ocr),
                                                 !.ocr_calls = @ + 1]
                   /\ pc' = "aborted"
                   /\ UNCHANGED << pages, result_type_config, analyzed_pages,
                                   unique_terms_counts, stats, high_zscore_pages,
                                   result >>
              ELSE /\ FirstPass(ocr_pages.value, TRUE, result_type_config)
                   /\ request' = [request EXCEPT !.pass = "ocr",
                                                 !.needs_ocr = Some(needs_ocr),
                                                 !.ocr_calls = @ + 1,
                                                 !.runs = @ + 1]
    /\ earlier' = Some(ThisRun)
    /\ UNCHANGED << config, services, response >>

\* lines 107-217: the steps after the last analysis result. With a Results Page
\* its image is rendered, the financial analysis is started, the image is
\* uploaded and the report is sent; without one the not-found message is sent.
\* Then the response is built and the locals are dropped
Respond ==
    /\ pc = "done"
    /\ request.pass = "ocr" \/ ~ result[1].needs_ocr
    /\ \E rendered \in BOOLEAN, extracted \in BOOLEAN, uploaded \in BOOLEAN :
          LET numbers == result_page_number(analyzed_pages)
              found == numbers # << >>
              image == found /\ rendered
              financial_analysis_result == start_analysis(services.ai_assistant, extracted)
              upload == image /\ config.TELEGRAM_USE_S3_URL /\ services.s3_service
              s3_url == upload /\ uploaded
              use_s3_url == config.TELEGRAM_USE_S3_URL /\ ~ (upload /\ ~ uploaded)
              notification ==
                  IF ~ found
                  THEN IF services.telegram_service THEN "not_found" ELSE "none"
                  ELSE IF ~ (image /\ services.telegram_service) THEN "none"
                  ELSE IF use_s3_url /\ s3_url THEN "s3_url" ELSE "document"
          IN  /\ config' = [config EXCEPT !.TELEGRAM_USE_S3_URL = use_s3_url]
              /\ response' = Some(
                     [ data |-> response_data(result[1], found, image, s3_url,
                                              financial_analysis_result),
                       create_result_image |-> IF found THEN Some(numbers[1]) ELSE None,
                       start_analysis |-> found,
                       extracted |-> found /\ services.ai_assistant /\ extracted,
                       upload_file |-> upload,
                       notification |-> notification ])
    /\ pc' = "idle"
    /\ pages' = <<>>
    /\ result_type_config' = NoConfig
    /\ analyzed_pages' = <<>>
    /\ unique_terms_counts' = <<>>
    /\ stats' = None
    /\ high_zscore_pages' = <<>>
    /\ result' = None
    /\ request' = NoRequest
    /\ earlier' = Some(ThisRun)
    /\ UNCHANGED services

\* the exception leaves process_document: no response, the locals are dropped
Reject ==
    /\ pc \in {"failed", "aborted"}
    /\ pc' = "idle"
    /\ pages' = <<>>
    /\ result_type_config' = NoConfig
    /\ analyzed_pages' = <<>>
    /\ unique_terms_counts' = <<>>
    /\ stats' = None
    /\ high_zscore_pages' = <<>>
    /\ result' = None
    /\ request' = NoRequest
    /\ UNCHANGED << earlier, config, services, response >>

NextProcess ==
    \/ Construct
    \/ ReceiveRequest
    \/ CheckMinTerms
    \/ CalculateStatistics
    \/ ClassifyOutliers
    \/ ReconcileTwoOutliers
    \/ SuppressDuplicates
    \/ CheckResultsPage
    \/ Reextract
    \/ Respond
    \/ Reject

SpecProcess == Init /\ [][NextProcess]_vars

\* ------------------------------------------------------------- properties
\* the pages labelled Results Page
ResultsPages(ap) == { i \in 1..Len(ap) : ap[i].classification = ResultsPage }

\* the pages whose outlier flag is set and true
OutlierPages(ap) == { i \in 1..Len(ap) : ap[i].isOutlier = Some(TRUE) }

\* classify_pages has returned
Classified == pc = "check_results"

Done == pc = "done"

SomePageHasMinTerms ==
    \E i \in 1..Len(pages) : Cardinality(pages[i].text.terms) >= MIN_FINANCIAL_TERMS

\* C1: once classify_pages has run, in either layout and variant, at most one
\* page carries the label Results Page
C1_AtMostOneResultsPage ==
    (Classified \/ Done) => Cardinality(ResultsPages(analyzed_pages)) <= 1

\* several pages were promoted and duplicate suppression kept exactly the top one
C1_Witness ==
    /\ Classified
    /\ Cardinality(ResultsPages(analyzed_pages)) = 1
    /\ \E i \in 1..Len(analyzed_pages) :
          analyzed_pages[i].classification = DuplicateResultsPage

\* the labels of section 4.3: the five classifier labels and the eight labels
\* of the keyword sub-classifier's table
ClosedLabelSet ==
    { NotRelevant, RelevantFinancialContent, ResultsPage, MoreResultsPages,
      DuplicateResultsPage,
      "Rare Case (Segment)", "Standalone (Segment)", "Consolidated (Segment)", "Segment",
      "Rare Case", "Standalone", "Consolidated", "Classification Failed" }

\* C2: in every output of analyze_document, the early exit included, every
\* page's classification is one label of the closed set of section 4.3
C2_EveryPageLabelled ==
    Done => \A i \in 1..Len(result[1].pages) :
                result[1].pages[i].classification \in ClosedLabelSet

\* C3: analyze_document returns one record per input page, in input order,
\* each with the input's page_number and isOcr flag, on every gate outcome
C3_PagesPreserved ==
    Done => /\ Len(result[1].pages) = Len(pages)
            /\ \A i \in 1..Len(pages) :
                  /\ result[1].pages[i].page_number = pages[i].page_number
                  /\ result[1].pages[i].isOcr = pages[i].isOcr

\* a classified document of OCR pages came back, several pages long
C3_Witness ==
    /\ Done
    /\ result[1].message = MsgSuccess
    /\ Len(pages) > 1
    /\ \A i \in 1..Len(pages) : pages[i].isOcr

\* C4: needs_ocr is false exactly when some page meets the minimum-terms
\* threshold, a page is labelled Results Page and the surviving Results Page
\* has at least 10 unique terms
C4_GateVerdict ==
    Done => ( result[1].needs_ocr = FALSE
              <=> /\ SomePageHasMinTerms
                  /\ ResultsPages(result[1].pages) # {}
                  /\ \A i \in ResultsPages(result[1].pages) :
                        result[1].pages[i].uniqueTermsCount >= 10 )

\* a Results Page survived with fewer than 10 terms and the gate asked for OCR
C4_Witness ==
    /\ Done
    /\ result[1].needs_ocr
    /\ \E i \in ResultsPages(result[1].pages) : result[1].pages[i].uniqueTermsCount < 10

\* C5: the gate checks run in the order no-terms, no-results-page, sparse; the
\* message is that of the first failing check; the no-terms exit happens before
\* statistics and classification; the four messages are pairwise distinct
C5_GateOrder ==
    /\ Cardinality({MsgNoTerms, MsgNoResultsPage, MsgSparse, MsgSuccess}) = 4
    /\ Done =>
         LET ap == result[1].pages
             sparse == \A i \in ResultsPages(ap) : ap[i].uniqueTermsCount < 10
         IN  /\ result[1].message =
                  IF ~ SomePageHasMinTerms THEN MsgNoTerms
                  ELSE IF ResultsPages(ap) = {} THEN MsgNoResultsPage
                  ELSE IF sparse THEN MsgSparse
                  ELSE MsgSuccess
             /\ ~ SomePageHasMinTerms =>
                  /\ stats = None
                  /\ \A i \in 1..Len(ap) :
                        ap[i].zScore = None /\ ap[i].classification = Unknown

\* the no-terms exit was taken on a document that has pages
C5_Witness ==
    /\ Done
    /\ Len(pages) > 0
    /\ result[1].message = MsgNoTerms

\* C6: if every page has fewer than MIN_FINANCIAL_TERMS terms, the output has
\* needs_ocr = true and no page labelled Results Page
C6_AllBelowMinimum ==
    (Done /\ ~ SomePageHasMinTerms) =>
        result[1].needs_ocr /\ ResultsPages(result[1].pages) = {}

\* a document whose pages differ in term count, all below the minimum
C6_Witness ==
    /\ Done
    /\ ~ SomePageHasMinTerms
    /\ \E i, j \in 1..Len(pages) :
          Cardinality(pages[i].text.terms) # Cardinality(pages[j].text.terms)

ZeroVariance ==
    \A i, j \in 1..Len(pages) :
        Cardinality(pages[i].text.terms) = Cardinality(pages[j].text.terms)

\* C7: if all pages have the same term count, every z-score that is computed
\* is 0, no page is an outlier, none is a Results Page and needs_ocr is true
C7_ZeroVariance ==
    (Done /\ ZeroVariance) =>
        /\ stats # None => \A i \in 1..Len(stats[1].z_scores) : stats[1].z_scores[i].num = 0
        /\ \A i \in 1..Len(result[1].pages) :
              result[1].pages[i].zScore # None => result[1].pages[i].zScore[1].num = 0
        /\ OutlierPages(result[1].pages) = {}
        /\ ResultsPages(result[1].pages) = {}
        /\ result[1].needs_ocr

\* several pages with one term count, above the minimum, went through the classifier
C7_Witness ==
    /\ Done
    /\ ZeroVariance
    /\ Len(pages) > 1
    /\ SomePageHasMinTerms
    /\ stats # None

ExampleCounts == <<2, 3, 15, 4, 3>>

IsExample == unique_terms_counts = ExampleCounts

\* C8: in the single-page layout with exactly one outlier, that page is a
\* Results Page if it has MIN_FINANCIAL_TERMS terms and Relevant Financial
\* Content otherwise, every other page stays Not Relevant; for the counts
\* [2, 3, 15, 4, 3] page 3 is the sole outlier, a Results Page, and no OCR is needed
C8_SingleOutlier ==
    /\ ( Classified /\ result_type_config.result_type = "single_page"
         /\ Cardinality(OutlierPages(analyzed_pages)) = 1 ) =>
           \A i \in 1..Len(analyzed_pages) :
               analyzed_pages[i].classification =
                   IF i \notin OutlierPages(analyzed_pages) THEN NotRelevant
                   ELSE IF analyzed_pages[i].uniqueTermsCount >= MIN_FINANCIAL_TERMS
                        THEN ResultsPage ELSE RelevantFinancialContent
    /\ ( Done /\ IsExample /\ result_type_config.result_type = "single_page" ) =>
           /\ OutlierPages(result[1].pages) = {3}
           /\ ResultsPages(result[1].pages) = {3}
           /\ result[1].needs_ocr = FALSE

\* the example document was analysed in the single-page layout
C8_Witness ==
    /\ Done
    /\ IsExample
    /\ result_type_config.result_type = "single_page"
    /\ result[1].pages[3].classification = ResultsPage

\* a / b rounded to two decimals, times 100
Round2(a, b) == (200 * a + b) \div (2 * b)

\* the general part of C9: the population mean and the sample variance
SampleStatistics ==
    stats # None =>
        LET c == unique_terms_counts
            n == Len(c)
            S == SumSeq(c)
            Q == SumSq(c)
            st == stats[1]
        IN  /\ st.mean[1] * (IF n = 0 THEN 1 ELSE n) = S * st.mean[2]
            /\ n > 1 => st.variance[1] * n * (n - 1) = (n * Q - S * S) * st.variance[2]
            /\ n <= 1 => st.variance[1] = 0
            /\ Len(st.z_scores) = n

\* C9 as stated: population mean, sample standard deviation, and for the
\* counts [2, 3, 15, 4, 3] mean = 5.4, std-dev about 5.06 (variance between
\* 25.55 and 25.65) and page 3's z-score about 1.89 (its square between 3.55 and 3.59)
C9_Original ==
    /\ SampleStatistics
    /\ (stats # None /\ IsExample) =>
          LET st == stats[1]
              z == st.z_scores[3]
          IN  /\ st.mean[1] * 10 = 54 * st.mean[2]
              /\ Round2(st.variance[1], st.variance[2]) \in 2555..2565
              /\ z.num > 0
              /\ Round2(z.num * z.num * z.k, z.rad) \in 355..359

\* C9 amended: population mean, sample standard deviation, and for the counts
\* [2, 3, 15, 4, 3] mean = 5.4, variance 29.30 (std-dev about 5.41) and a squared
\* z-score of 3.15 for page 3 (z-score about 1.77)
C9_SampleStatistics ==
    /\ SampleStatistics
    /\ (stats # None /\ IsExample) =>
          LET st == stats[1]
              z == st.z_scores[3]
          IN  /\ st.mean[1] * 10 = 54 * st.mean[2]
              /\ Round2(st.variance[1], st.variance[2]) = 2930
              /\ z.num > 0
              /\ Round2(z.num * z.num * z.k, z.rad) = 315

\* the statistics of the example document have just been computed
C9_Witness == pc = "classify" /\ IsExample /\ stats # None

HasWord(text, w) == \E l \in DOMAIN text.lines : w \in text.lines[l]

\* a line holds a Consolidated word and no 'separate'
HasConsolidatedLine(text) ==
    \E l \in DOMAIN text.lines :
        "Consolidated" \in text.lines[l] /\ "separate" \notin text.lines[l]

\* the text of a page the multi-page branch promotes under variant Consolidated
PromotedAsConsolidated(text) ==
    \/ HasConsolidatedLine(text) /\ ~ HasWord(text, "Standalone")
    \/ /\ HasWord(text, "SEGMENT") /\ HasWord(text, "Standalone")
       /\ HasWord(text, "Consolidated") /\ ~ HasConsolidatedLine(text)

\* multi-page layout, variant Consolidated, exactly two outliers with 10 terms or
\* more each, classify_pages has returned
TwoOutlierScenario ==
    /\ Classified
    /\ result_type_config = [result_type |-> "multi_page", multi_page_type |-> "consolidated"]
    /\ Len(high_zscore_pages) = 2
    /\ \A j \in 1..2 : analyzed_pages[high_zscore_pages[j]].uniqueTermsCount >= 10

\* C10 as stated: in that scenario an outlier with 'Consolidated' on a line
\* without 'separate' ends the classification as the Results Page
C10_Original ==
    TwoOutlierScenario =>
        \A j \in 1..2 :
            HasConsolidatedLine(analyzed_pages[high_zscore_pages[j]].text)
            => analyzed_pages[high_zscore_pages[j]].classification = ResultsPage

\* C10 amended: in that scenario an outlier with 'Consolidated' on a line without
\* 'separate' and without a Standalone word ends the classification as the
\* Results Page, provided the other outlier is not promoted by the layout step
C10_ConsolidatedPagePromoted ==
    TwoOutlierScenario =>
        \A j \in 1..2 :
            LET p == analyzed_pages[high_zscore_pages[j]]
                q == analyzed_pages[high_zscore_pages[3 - j]]
            IN  ( /\ HasConsolidatedLine(p.text)
                  /\ ~ HasWord(p.text, "Standalone")
                  /\ ~ PromotedAsConsolidated(q.text) )
                => p.classification = ResultsPage

\* the top outlier is the consolidated page and was promoted, its partner was not
C10_Witness ==
    /\ TwoOutlierScenario
    /\ HasConsolidatedLine(analyzed_pages[high_zscore_pages[1]].text)
    /\ ~ HasWord(analyzed_pages[high_zscore_pages[1]].text, "Standalone")
    /\ ~ PromotedAsConsolidated(analyzed_pages[high_zscore_pages[2]].text)
    /\ analyzed_pages[high_zscore_pages[1]].classification = ResultsPage

\* the texts of a page list
Texts(p) == [i \in 1..Len(p) |-> p[i].text]

\* two outputs agree on needs_ocr, the message and every page field but isOcr
SameButIsOcr(r1, r2) ==
    /\ r1.needs_ocr = r2.needs_ocr
    /\ r1.message = r2.message
    /\ Len(r1.pages) = Len(r2.pages)
    /\ \A i \in 1..Len(r1.pages) :
          [r1.pages[i] EXCEPT !.isOcr = FALSE] = [r2.pages[i] EXCEPT !.isOcr = FALSE]

\* a run has returned and an earlier run had the same page texts and layout config
SameTextsAsEarlier ==
    /\ Done
    /\ earlier # None
    /\ Texts(pages) = Texts(earlier[1].pages)
    /\ result_type_config = earlier[1].result_type_config

InFlight == pc # "idle"

\* the layout was resolved and the engine has been called
Resolved == pc \notin {"idle", "failed"}

HintAbsent == request.stock_data.form = "absent"

HintMalformed == request.stock_data.form = "malformed"

\* the hint decodes to an object
HintIsObject ==
    request.stock_data.form = "json" /\ request.stock_data.value.json = "object"

\* the hint's resultPageConfig member is there and is an object
HintHasConfigObject ==
    /\ HintIsObject
    /\ "resultPageConfig" \in DOMAIN request.stock_data.value.members
    /\ request.stock_data.value.members["resultPageConfig"].json = "object"

HintConfigMembers == request.stock_data.value.members["resultPageConfig"].members

\* a parseable hint without the layout field
HintLacksType ==
    \/ HintIsObject /\ "resultPageConfig" \notin DOMAIN request.stock_data.value.members
    \/ HintHasConfigObject /\ "type" \notin DOMAIN HintConfigMembers

HintTypeIsMulti ==
    /\ HintHasConfigObject
    /\ "type" \in DOMAIN HintConfigMembers
    /\ HintConfigMembers["type"] = JString("Multi")

C13_MalformedHintRejected ==
    InFlight =>
        /\ HintMalformed =>
              /\ from_stock_data(request.stock_data) = Raised("Invalid stock data format")
              /\ pc = "failed"
              /\ request.error # None
              /\ result_type_config = NoConfig
              /\ pages = <<>> /\ analyzed_pages = <<>> /\ result = None
        /\ HintAbsent =>
              /\ from_stock_data(request.stock_data) = Returned(DefaultConfig)
              /\ pc # "failed"
              /\ request.error = None
              /\ result_type_config = DefaultConfig

\* a request with a hint that is not JSON has failed
C13_Witness == pc = "failed" /\ HintMalformed /\ request.error = Some("JSONDecodeError")

\* C16: whenever the resolved layout is multi-page the variant is consolidated
\* or standalone, whatever the hint's sub-type, and whenever it is single-page
\* there is no variant
C16_VariantEnum ==
    Resolved =>
        /\ result_type_config.result_type = "multi_page" =>
              result_type_config.multi_page_type \in {"consolidated", "standalone"}
        /\ result_type_config.result_type = "single_page" =>
              result_type_config.multi_page_type = "None"

\* C14: no division by zero: with fewer than two pages or equal counts the
\* variance is 0 and every z-score is 0; wherever a z-score was computed by
\* division the standard deviation is positive; the z-score list is as long as
\* the page list; the top outlier's z-score (divisor of the single-page gap)
\* and every Results Page's z-score (divisor of the duplicate gap) are not 0
C14_NoZeroDivision ==
    /\ stats # None =>
          LET c == unique_terms_counts
              st == stats[1]
          IN  /\ Len(st.z_scores) = Len(pages)
              /\ (Len(c) < 2 \/ \A i, j \in 1..Len(c) : c[i] = c[j]) =>
                    /\ st.variance[1] = 0
                    /\ \A i \in 1..Len(c) : st.z_scores[i] = ZeroZ
              /\ \A i \in 1..Len(c) : st.z_scores[i].rad > 0 /\ st.z_scores[i].k > 0
    /\ \A j \in 1..Len(high_zscore_pages) : ZNum(analyzed_pages, high_zscore_pages[j]) > 0
    /\ (pc \in {"special_case", "duplicates", "check_results"} \/ (Done /\ stats # None)) =>
          \A i \in ResultsPages(analyzed_pages) : ZNum(analyzed_pages, i) > 0

\* duplicate suppression is about to divide by the runner-up's z-score
C14_Witness ==
    /\ pc = "duplicates"
    /\ Cardinality(ResultsPages(analyzed_pages)) > 1

\* a document without pages, or whose pages all have no financial term
Degenerate ==
    /\ InFlight
    /\ \A i \in 1..Len(pages) : pages[i].text.terms = {}

\* C15: for an empty document and for pages without any term (empty text, all
\* counts zero) analyze_document returns at step 2, before statistics and
\* classification, with needs_ocr true, zero counts, no outlier, no Results
\* Page and one record per input page; classify_pages on an empty page list
\* returns the empty list
C15_DegenerateInputs ==
    /\ Degenerate =>
          /\ pc \in {"check_min_terms", "done"}
          /\ Len(analyzed_pages) = Len(pages)
          /\ \A i \in 1..Len(analyzed_pages) : analyzed_pages[i].uniqueTermsCount = 0
          /\ Done =>
                /\ result[1].needs_ocr
                /\ result[1].pages = analyzed_pages
                /\ OutlierPages(result[1].pages) = {}
                /\ ResultsPages(result[1].pages) = {}
    /\ \A cfg \in ResultTypeConfigs :
          classify_pages(<<>>, calculate_statistics(<<>>), cfg) = <<>>

\* analyze_document has returned for a document without pages
C15_Witness ==
    /\ Done
    /\ pages = <<>>
    /\ result[1] = [needs_ocr |-> TRUE, message |-> MsgNoTerms, pages |-> <<>>]

\* classify_pages has run and its pages are still at hand
AfterClassify == Classified \/ (Done /\ stats # None)

\* C17: after classify_pages every page carries its z-score, is an outlier
\* exactly if that z-score is above ZSCORE_THRESHOLD, and is labelled Not
\* Relevant unless it is an outlier; without outliers all pages are Not Relevant
C17_OutliersOnly ==
    AfterClassify =>
        /\ \A i \in 1..Len(analyzed_pages) :
              LET page == analyzed_pages[i]
                  z == stats[1].z_scores[i]
              IN  /\ page.zScore = Some(z)
                  /\ page.isOutlier =
                        Some(z.num > 0 /\ z.num * z.num * z.k
                                          > ZSCORE_THRESHOLD * ZSCORE_THRESHOLD * z.rad)
                  /\ page.isOutlier = Some(FALSE) => page.classification = NotRelevant
                  /\ page.classification = ResultsPage => page.isOutlier = Some(TRUE)
        /\ OutlierPages(analyzed_pages) = {} =>
              \A i \in 1..Len(analyzed_pages) : analyzed_pages[i].classification = NotRelevant

\* an outlier was labelled while a page with the minimum term count, not an
\* outlier, stayed Not Relevant
C17_Witness ==
    /\ Classified
    /\ \E i \in OutlierPages(analyzed_pages) : analyzed_pages[i].classification # NotRelevant
    /\ \E i \in 1..Len(analyzed_pages) :
          /\ analyzed_pages[i].uniqueTermsCount >= MIN_FINANCIAL_TERMS
          /\ analyzed_pages[i].isOutlier = Some(FALSE)
          /\ analyzed_pages[i].classification = NotRelevant

\* an outlier whose z-score no other outlier exceeds
TopOutlier(ap) ==
    CHOOSE t \in OutlierPages(ap) : \A j \in OutlierPages(ap) : ZNum(ap, t) >= ZNum(ap, j)

\* an outlier other than the top one whose z-score no third outlier exceeds
SecondOutlier(ap) ==
    CHOOSE u \in OutlierPages(ap) \ {TopOutlier(ap)} :
        \A j \in OutlierPages(ap) \ {TopOutlier(ap)} : ZNum(ap, u) >= ZNum(ap, j)

\* (top_z - second_z) / top_z * 100 > 30
LargeGap(ap) ==
    (ZNum(ap, TopOutlier(ap)) - ZNum(ap, SecondOutlier(ap))) * 100
        > GAP_PERCENTAGE_THRESHOLD * ZNum(ap, TopOutlier(ap))

\* the single-page layout was applied to two or more outliers
SinglePageSeveralOutliers ==
    /\ AfterClassify
    /\ result_type_config.result_type = "single_page"
    /\ Cardinality(OutlierPages(analyzed_pages)) >= 2

\* C18: single-page layout, two or more outliers: with a gap above 30% the
\* top outlier is the Results Page if it has MIN_FINANCIAL_TERMS terms (else
\* Relevant Financial Content) and every other outlier is Relevant Financial
\* Content; with a gap of 30% or less every outlier with MIN_FINANCIAL_TERMS
\* terms is More Results Pages, no page is a Results Page and needs_ocr is true
C18_SinglePageGap ==
    SinglePageSeveralOutliers =>
        LET ap == analyzed_pages
            enough(i) == ap[i].uniqueTermsCount >= MIN_FINANCIAL_TERMS
        IN  IF LargeGap(ap)
            THEN \A i \in OutlierPages(ap) :
                    ap[i].classification =
                        IF i = TopOutlier(ap) /\ enough(i) THEN ResultsPage
                        ELSE RelevantFinancialContent
            ELSE /\ \A i \in OutlierPages(ap) :
                       ap[i].classification =
                           IF enough(i) THEN MoreResultsPages ELSE RelevantFinancialContent
                 /\ ResultsPages(ap) = {}
                 /\ Done => result[1].needs_ocr /\ result[1].message = MsgNoResultsPage

\* two outliers more than 30% apart: the top one is the Results Page, the
\* other Relevant Financial Content
C18_Witness ==
    /\ SinglePageSeveralOutliers
    /\ Classified
    /\ LargeGap(analyzed_pages)
    /\ analyzed_pages[TopOutlier(analyzed_pages)].classification = ResultsPage
    /\ analyzed_pages[SecondOutlier(analyzed_pages)].classification = RelevantFinancialContent

\* the label the eight-row table gives for the three flags of a text
EightRowLabel(text) ==
    LET segment == HasWord(text, "SEGMENT")
        standalone == HasWord(text, "Standalone")
        consolidated == HasConsolidatedLine(text)
    IN  IF segment
        THEN IF standalone
             THEN IF consolidated THEN "Rare Case (Segment)" ELSE "Standalone (Segment)"
             ELSE IF consolidated THEN "Consolidated (Segment)" ELSE "Segment"
        ELSE IF standalone
             THEN IF consolidated THEN "Rare Case" ELSE "Standalone"
             ELSE IF consolidated THEN "Consolidated" ELSE "Classification Failed"

\* the multi-page layout step has just labelled the outliers
MultiPageLabelled ==
    /\ pc = "special_case"
    /\ result_type_config.result_type = "multi_page"

\* the outliers the multi-page step ran the keyword sub-classifier on
SubClassified ==
    { i \in Range(high_zscore_pages) :
          analyzed_pages[i].uniqueTermsCount >= MIN_FINANCIAL_TERMS }

\* C19: the keyword sub-classifier's label is the one the eight-row table
\* gives for the flags segment, standalone and consolidated (a Consolidated
\* word counting only on a line without 'separate'); a Consolidated word on
\* 'separate' lines only leaves the label unchanged
C19_EightRowTable ==
    MultiPageLabelled =>
        \A i \in SubClassified :
            /\ _analyze_text_content(analyzed_pages[i].text)
                  = EightRowLabel(analyzed_pages[i].text)
            /\ analyzed_pages[i].classification
                  \in {ResultsPage, EightRowLabel(analyzed_pages[i].text)}

\* the configured variant's marker was detected in the text, the other's was not
VariantMarkerOnly(text, multi_page_type) ==
    IF multi_page_type = "consolidated"
    THEN HasConsolidatedLine(text) /\ ~ HasWord(text, "Standalone")
    ELSE HasWord(text, "Standalone") /\ ~ HasConsolidatedLine(text)

\* C20: the multi-page step promotes an outlier with MIN_FINANCIAL_TERMS terms
\* to Results Page exactly if the configured variant's marker was detected and
\* the other variant's was not; under variant consolidated a page whose
\* Consolidated words are all on 'separate' lines is not promoted; an outlier
\* with fewer terms is Relevant Financial Content
C20_PromotionByVariant ==
    MultiPageLabelled =>
        \A i \in Range(high_zscore_pages) :
            LET page == analyzed_pages[i]
            IN  IF i \in SubClassified
                THEN /\ page.classification = ResultsPage
                          <=> VariantMarkerOnly(page.text, result_type_config.multi_page_type)
                     /\ ( result_type_config.multi_page_type = "consolidated"
                          /\ ~ HasConsolidatedLine(page.text) )
                          => page.classification # ResultsPage
                ELSE page.classification = RelevantFinancialContent

\* a label holding the word Consolidated or Standalone
ScopeBearing(label) ==
    label \in LabelsContainingConsolidated \cup LabelsContainingStandalone

\* the pages a step relabels
Relabelled == { i \in 1..Len(analyzed_pages) : analyzed_pages'[i] # analyzed_pages[i] }

\* C21: the two-outlier reconciliation changes labels only when there are
\* exactly two outliers, none a Results Page; the page it promotes to Results
\* Page has 10 terms or more, has no Consolidated/Standalone-bearing label
\* itself, and its partner has one; at most one page is promoted
C21_PartnerPromotion ==
    [][ pc = "special_case" =>
          /\ Len(analyzed_pages') = Len(analyzed_pages)
          /\ Cardinality(Relabelled) <= 1
          /\ Relabelled # {} =>
                /\ Len(high_zscore_pages) = 2
                /\ \A j \in 1..2 :
                      analyzed_pages[high_zscore_pages[j]].classification # ResultsPage
          /\ \A i \in Relabelled :
                /\ i \in Range(high_zscore_pages)
                /\ analyzed_pages'[i] = [analyzed_pages[i] EXCEPT !.classification = ResultsPage]
                /\ analyzed_pages[i].uniqueTermsCount >= 10
                /\ ~ ScopeBearing(analyzed_pages[i].classification)
                /\ \E h \in Range(high_zscore_pages) \ {i} :
                      ScopeBearing(analyzed_pages[h].classification) ]_vars

\* the Results Page with the highest z-score
TopResultsPage(ap) ==
    CHOOSE t \in ResultsPages(ap) : \A j \in ResultsPages(ap) : ZNum(ap, t) >= ZNum(ap, j)

\* the Results Page with the highest z-score after the top one
RunnerUp(ap) ==
    CHOOSE u \in ResultsPages(ap) \ {TopResultsPage(ap)} :
        \A j \in ResultsPages(ap) \ {TopResultsPage(ap)} : ZNum(ap, u) >= ZNum(ap, j)

\* the top page has 14 terms and (top_z - runner_up_z) / |runner_up_z| * 100 >= 30
TopAccepted(ap) ==
    LET z0 == ZNum(ap, TopResultsPage(ap))
        z1 == ZNum(ap, RunnerUp(ap))
    IN  /\ ap[TopResultsPage(ap)].uniqueTermsCount >= 14
        /\ (z0 - z1) * 100 >= 30 * (IF z1 < 0 THEN -z1 ELSE z1)

\* C22: duplicate suppression: with several Results Pages the top one stays
\* and the others become Duplicate Results Page exactly if the top page has 14
\* terms and a gap of 30% to the runner-up; otherwise all of them become
\* Duplicate Results Page and the gate asks for OCR with the no-results-page
\* message; with one Results Page or none the step changes nothing
C22_DuplicateSuppression ==
    /\ [][ pc = "duplicates" =>
             LET ap == analyzed_pages
                 keep == IF TopAccepted(ap) THEN {TopResultsPage(ap)} ELSE {}
             IN  IF Cardinality(ResultsPages(ap)) > 1
                 THEN analyzed_pages' = [ i \in 1..Len(ap) |->
                          IF i \in ResultsPages(ap) \ keep
                          THEN [ap[i] EXCEPT !.classification = DuplicateResultsPage]
                          ELSE ap[i] ]
                 ELSE analyzed_pages' = ap ]_vars
    /\ []( ( Done /\ stats # None /\ ResultsPages(analyzed_pages) = {}
             /\ \E i \in 1..Len(analyzed_pages) :
                   analyzed_pages[i].classification = DuplicateResultsPage )
           => result[1].needs_ocr /\ result[1].message = MsgNoResultsPage )

\* every promoted page was relabelled Duplicate Results Page and the gate has
\* asked for OCR
C22_Witness ==
    /\ Done
    /\ ResultsPages(result[1].pages) = {}
    /\ Cardinality({ i \in 1..Len(result[1].pages) :
                       result[1].pages[i].classification = DuplicateResultsPage }) > 1
    /\ result[1].message = MsgNoResultsPage

\* C25: the z-score of a page of an n-page document is at most (n-1)/sqrt(n);
\* a document of one or two pages has no outlier and no Results Page, and its
\* analysis returns needs_ocr true, for extractor pages and for OCR pages
C25_ShortDocuments ==
    /\ stats # None =>
          \A i \in 1..Len(stats[1].z_scores) :
              LET z == stats[1].z_scores[i]
                  n == Len(stats[1].z_scores)
              IN  z.num > 0 => z.num * z.num * z.k * n <= (n - 1) * (n - 1) * z.rad
    /\ (InFlight /\ Len(pages) <= 2) =>
          /\ OutlierPages(analyzed_pages) = {}
          /\ ResultsPages(analyzed_pages) = {}
          /\ high_zscore_pages = <<>>
          /\ Done => result[1].needs_ocr

\* two OCR pages with different counts, one of them with all the terms, were
\* classified and the gate asked for OCR
C25_Witness ==
    /\ Done
    /\ Len(pages) = 2
    /\ pages[1].isOcr
    /\ stats # None
    /\ unique_terms_counts[1] # unique_terms_counts[2]
    /\ result[1].message = MsgNoResultsPage

\* C26: in the single-page layout the reconciliation of two outliers and the
\* duplicate suppression change no label, and a Results Page is an outlier
\* whose z-score no other outlier exceeds
C26_SinglePageTopOnly ==
    /\ [][ ( pc \in {"special_case", "duplicates"}
             /\ result_type_config.result_type = "single_page" )
           => analyzed_pages' = analyzed_pages ]_vars
    /\ []( (AfterClassify /\ result_type_config.result_type = "single_page") =>
             \A i \in ResultsPages(analyzed_pages) :
                 /\ i \in OutlierPages(analyzed_pages)
                 /\ \A j \in OutlierPages(analyzed_pages) :
                       ZNum(analyzed_pages, i) >= ZNum(analyzed_pages, j) )

\* single-page layout: two outliers with 10 terms or more have passed the
\* reconciliation step
C26_Witness ==
    /\ pc = "duplicates"
    /\ result_type_config.result_type = "single_page"
    /\ Len(high_zscore_pages) = 2
    /\ \A j \in 1..2 : analyzed_pages[high_zscore_pages[j]].uniqueTermsCount >= 10
    /\ ResultsPages(analyzed_pages) = {}

\* ------------------------------------------------ the steps around the engine
\* the request ends: the response is returned or the exception leaves
RequestEnds == pc \in {"done", "failed", "aborted"} /\ pc' = "idle"

\* C23: in one request the engine runs at most twice and the OCR provider is
\* called at most once; the provider is called only when the first run has
\* returned with needs_ocr true; a request whose first run returned ends with
\* an OCR call and a second run if and only if that run returned needs_ocr true
C23_AtMostTwoRuns ==
    /\ [](request.runs <= 2 /\ request.ocr_calls <= 1)
    /\ [][ request'.ocr_calls > request.ocr_calls =>
              /\ pc = "done"
              /\ request.runs = 1 /\ request.ocr_calls = 0
              /\ result[1].needs_ocr ]_vars
    /\ [][ (RequestEnds /\ request.runs >= 1) =>
              /\ request.ocr_calls = 1 <=> needs_ocr
              /\ request.runs = 2 <=> needs_ocr ]_vars

\* the response was built from the run that is the last one of its request
AfterLastRun == pc = "done" /\ (request.pass = "ocr" \/ ~ result[1].needs_ocr)

\* C24: nothing downstream happens while the engine runs of a request are
\* under way; the image, the financial analysis, the upload and the report
\* happen only after the last run and only when that run labelled a Results
\* Page, whose page_number is the one rendered; without a Results Page none of
\* them happens and the only message is the not-found one
C24_DownstreamAfterLastRun ==
    /\ [](InFlight => response = None)
    /\ [][ (response' # None /\ response' # response) =>
              /\ AfterLastRun
              /\ response'[1].data.pages = analyzed_pages
              /\ IF ResultsPages(analyzed_pages) = {}
                 THEN /\ response'[1].create_result_image = None
                      /\ ~ response'[1].start_analysis
                      /\ ~ response'[1].upload_file
                      /\ response'[1].notification =
                            IF services.telegram_service THEN "not_found" ELSE "none"
                 ELSE /\ \E i \in ResultsPages(analyzed_pages) :
                            response'[1].create_result_image =
                                Some(analyzed_pages[i].page_number)
                      /\ response'[1].start_analysis
                      /\ response'[1].notification \in {"s3_url", "document", "none"}
                      /\ response'[1].upload_file =>
                            response'[1].notification # "none" \/ ~ services.telegram_service
           ]_vars

\* after an OCR pass the image of page 3 was rendered, uploaded, and the
\* report with the S3 URL was sent
C24_Witness ==
    /\ response # None
    /\ response[1].create_result_image = Some(3)
    /\ response[1].upload_file
    /\ response[1].notification = "s3_url"
    /\ ocr_applied(response[1].data.pages)

GateFailureMessages == {MsgNoTerms, MsgNoResultsPage, MsgSparse}

\* C27: in a response needs_ocr is true if and only if the message is one of
\* the three gate failure messages
C27_ResponseOfOneRun ==
    response # None =>
        (response[1].data.needs_ocr <=> response[1].data.message \in GateFailureMessages)

\* C28: the image is rendered and the financial analysis is started only when
\* the last run of the request returned needs_ocr false
C28_NoDownstreamWhenRejected ==
    response # None =>
        ((response[1].create_result_image # None \/ response[1].start_analysis) =>
            ~ earlier[1].result.needs_ocr)

\* C29: no step changes the TELEGRAM_USE_S3_URL setting of the process
C29_SettingsUnchanged == [][config' = config]_vars

\* C30: when the financial analysis was started and the extraction failed, the
\* response carries financial_analysis_error and no financial_analysis;
\* financial_analysis is there only when the extraction succeeded
C30_AiFailureReported ==
    (response # None /\ response[1].start_analysis) =>
        /\ ~ response[1].extracted =>
              /\ response[1].data.financial_analysis_error # None
              /\ response[1].data.financial_analysis = None
        /\ response[1].data.financial_analysis # None => response[1].extracted

====
